---- MODULE Spec2Model ----
(***************************************************************************)
(* emuwasm (src/__main__.py): the LIFO Stack class and the WasmShell       *)
(* command shell built on cmd.Cmd.                                         *)
(*                                                                         *)
(* Two specifications:                                                     *)
(*   StackSpec  a client that creates a Stack and calls its methods        *)
(*              (push, pop, top, __len__, is_empty) in any order;          *)
(*   Spec       the shell: WasmShell.cmdloop around cmd.Cmd.cmdloop, one   *)
(*              action per do_* command handler.                           *)
(***************************************************************************)
EXTENDS Integers, Sequences, FiniteSets, TLC

VARIABLES
    hasStack,   \* the shell has a self.stack attribute (set by do_init only)
    data,       \* Stack._data: the Python list, bottom first
    module,     \* WasmShell.module: None or the text of the current module
    pc,         \* "prompt": cmd.Cmd.cmdloop waits for a line;
                \* "outer": back in WasmShell.cmdloop's while True (the inner
                \*          loop returned, or its exception was caught);
                \* "exited": the process has terminated
    cmd,        \* the last command (shell) or method (Stack client) run
    exc,        \* the exception the last command raised, "None" if none
    ret,        \* the value the last command returned
    editor,     \* do_enter's locals of its last run: exit_code and output
    npush,      \* history: number of Stack.push calls
    npop,       \* history: number of Stack.pop calls that did not raise
    live        \* history: the pushes not yet popped, each with its push number

vars == <<hasStack, data, module, pc, cmd, exc, ret, editor, npush, npop, live>>

(***************************************************************************)
(* Bounds of the model.                                                    *)
(***************************************************************************)
MaxLen == 3
MaxPush == 4

(***************************************************************************)
(* Python values.  A stack element is a str (the argument of a command     *)
(* line) or an int (do_go pushes 1 and 2); None, int and bool are what the *)
(* methods return.                                                         *)
(***************************************************************************)
None == [kind |-> "none", s |-> "", n |-> 0]
StrVal(x) == [kind |-> "str", s |-> x, n |-> 0]
IntVal(x) == [kind |-> "int", s |-> "", n |-> x]
BoolVal(b) == [kind |-> "bool", s |-> "", n |-> IF b THEN 1 ELSE 0]

\* Python truth value: None, '', 0 and False are falsy.
Truthy(v) ==
    CASE v.kind = "none" -> FALSE
      [] v.kind = "str" -> v.s # ""
      [] OTHER -> v.n # 0

\* What a user can give to `push` (the rest of the line, '' when absent).
Args == {StrVal(""), StrVal("a"), StrVal("b")}
\* What a Stack may hold: command arguments, and the ints do_go pushes.
Elements == Args \cup {IntVal(1), IntVal(2)}

(***************************************************************************)
(* Module-level tables, lines 21-39.                                       *)
(***************************************************************************)
\* Mutant of sections: the list without its last entry.
sections_without_data ==
    << "type", "import", "function", "table", "memory", "global",
       "export", "start", "element", "code" >>

sections ==
    << "type", "import", "function", "table", "memory", "global",
       "export", "start", "element", "code", "data" >>

\* Mutant of required_sections: the entries in another order.
required_sections_reordered == << "type", "code", "function" >>

required_sections == << "type", "function", "code" >>

(***************************************************************************)
(* Module text.  The shell keeps the text as read; the model keeps of a    *)
(* text the sequence of section keywords that occur in it.                 *)
(***************************************************************************)
Texts ==
    { <<>>,
      << "type", "function", "code" >>,
      << "type", "function" >>,
      << "memory", "data" >> }

ModNone == [none |-> TRUE, text |-> <<>>]
ModText(t) == [none |-> FALSE, text |-> t]

FileNames == {"add.wat", "m.wat"}

(***************************************************************************)
(* class Stack, lines 121-159.  Each method is an operator on the list     *)
(* _data, giving the exception raised ("None" if none), the value returned *)
(* and the list afterwards.                                                *)
(***************************************************************************)
Stack_init == <<>>

Stack_len(d) == Len(d)

Stack_is_empty(d) == Len(d) = 0

Stack_push(d, e) == Append(d, e)

\* Mutant of Stack_top: top written as a pop (the element is removed).
Stack_top_removing(d) ==
    IF Len(d) = 0
    THEN [exc |-> "EmptyException", ret |-> None, data |-> d]
    ELSE [exc |-> "None", ret |-> d[Len(d)], data |-> SubSeq(d, 1, Len(d) - 1)]

Stack_top(d) ==
    IF Stack_is_empty(d)
    THEN [exc |-> "EmptyException", ret |-> None, data |-> d]
    ELSE [exc |-> "None", ret |-> d[Len(d)], data |-> d]

\* Mutant of Stack_pop: _data.pop(0), the oldest element instead of the newest.
Stack_pop_oldest(d) ==
    IF Len(d) = 0
    THEN [exc |-> "EmptyException", ret |-> None, data |-> d]
    ELSE [exc |-> "None", ret |-> d[1], data |-> SubSeq(d, 2, Len(d))]

\* Mutant of Stack_pop: the emptiness check left out, so that list.pop()
\* raises its own IndexError.
Stack_pop_unchecked(d) ==
    IF Len(d) = 0
    THEN [exc |-> "IndexError", ret |-> None, data |-> d]
    ELSE [exc |-> "None", ret |-> d[Len(d)], data |-> SubSeq(d, 1, Len(d) - 1)]

\* Mutant of Stack_pop: an empty stack gives None instead of raising.
Stack_pop_silent(d) ==
    IF Len(d) = 0
    THEN [exc |-> "None", ret |-> None, data |-> d]
    ELSE [exc |-> "None", ret |-> d[Len(d)], data |-> SubSeq(d, 1, Len(d) - 1)]

Stack_pop(d) ==
    IF Stack_is_empty(d)
    THEN [exc |-> "EmptyException", ret |-> None, data |-> d]
    ELSE [exc |-> "None", ret |-> d[Len(d)], data |-> SubSeq(d, 1, Len(d) - 1)]

(***************************************************************************)
(* StackSpec: a client of class Stack.                                     *)
(***************************************************************************)
NotRun == [ran |-> FALSE, exit_code |-> 0, output |-> <<>>]

Newest(L) == CHOOSE x \in L : \A y \in L : y.id <= x.id

StackInit ==
    /\ hasStack = TRUE
    /\ data = Stack_init
    /\ module = ModNone
    /\ pc = "prompt"
    /\ cmd = "new"
    /\ exc = "None"
    /\ ret = None
    /\ editor = NotRun
    /\ npush = 0
    /\ npop = 0
    /\ live = {}

CallPush(e) ==
    /\ Len(data) < MaxLen
    /\ npush < MaxPush
    /\ data' = Stack_push(data, e)
    /\ cmd' = "push"
    /\ exc' = "None"
    /\ ret' = None
    /\ npush' = npush + 1
    /\ live' = live \cup {[id |-> npush + 1, v |-> e]}
    /\ UNCHANGED <<hasStack, module, pc, editor, npop>>

CallPop ==
    LET r == Stack_pop(data) IN
    /\ data' = r.data
    /\ cmd' = "pop"
    /\ exc' = r.exc
    /\ ret' = r.ret
    /\ npop' = IF r.exc = "None" THEN npop + 1 ELSE npop
    /\ live' = IF r.exc = "None" /\ live # {} THEN live \ {Newest(live)} ELSE live
    /\ UNCHANGED <<hasStack, module, pc, editor, npush>>

CallTop ==
    LET r == Stack_top(data) IN
    /\ data' = r.data
    /\ cmd' = "top"
    /\ exc' = r.exc
    /\ ret' = r.ret
    /\ UNCHANGED <<hasStack, module, pc, editor, npush, npop, live>>

CallLen ==
    /\ cmd' = "len"
    /\ exc' = "None"
    /\ ret' = IntVal(Stack_len(data))
    /\ UNCHANGED <<hasStack, data, module, pc, editor, npush, npop, live>>

CallIsEmpty ==
    /\ cmd' = "is_empty"
    /\ exc' = "None"
    /\ ret' = BoolVal(Stack_is_empty(data))
    /\ UNCHANGED <<hasStack, data, module, pc, editor, npush, npop, live>>

StackNext ==
    \/ \E e \in Elements : CallPush(e)
    \/ CallPop
    \/ CallTop
    \/ CallLen
    \/ CallIsEmpty

StackSpec == StackInit /\ [][StackNext]_vars

(***************************************************************************)
(* Spec: class WasmShell, lines 162-250.                                   *)
(*                                                                         *)
(* cmd.Cmd.cmdloop reads a line, calls the do_* handler the line names     *)
(* with the rest of the line as argument, and leaves its loop when the     *)
(* handler returns a true value.  WasmShell.cmdloop (lines 177-186) calls  *)
(* it in a while True: an Exception it lets through is caught and logged,  *)
(* and both after a caught Exception and after a return the inner loop is  *)
(* entered again.  SystemExit is not an Exception and ends the process, as *)
(* does os._exit.                                                          *)
(***************************************************************************)
Init ==
    /\ hasStack = FALSE
    /\ data = <<>>
    /\ module = ModNone
    /\ pc = "prompt"
    /\ cmd = "start"
    /\ exc = "None"
    /\ ret = None
    /\ editor = NotRun
    /\ npush = 0
    /\ npop = 0
    /\ live = {}

\* Mutant of AfterCommand: cmdloop without its `except Exception` clause, so
\* that an exception of a handler ends the process.
AfterCommand_uncaught(e, r) ==
    IF e # "None" THEN "exited"
    ELSE IF Truthy(r) THEN "outer"
    ELSE "prompt"

\* Where control goes when a handler ends by raising e ("None": by returning r).
AfterCommand(e, r) ==
    IF e = "SystemExit" THEN "exited"
    ELSE IF e # "None" THEN "outer"
    ELSE IF Truthy(r) THEN "outer"
    ELSE "prompt"

\* The handler of the line `name ...` ended by raising e, or returning r.
Finish(name, e, r) ==
    /\ cmd' = name
    /\ exc' = e
    /\ ret' = r
    /\ pc' = AfterCommand(e, r)

\* Mutant of cmdloop: no `while True`, so that the process ends when the
\* inner loop has returned or its exception has been logged.
cmdloop_once ==
    /\ pc = "outer"
    /\ pc' = "exited"
    /\ exc' = "None"
    /\ UNCHANGED <<hasStack, data, module, cmd, ret, editor, npush, npop, live>>

\* WasmShell.cmdloop's while True: super().cmdloop(intro="") is called again.
cmdloop ==
    /\ pc = "outer"
    /\ pc' = "prompt"
    /\ exc' = "None"
    /\ UNCHANGED <<hasStack, data, module, cmd, ret, editor, npush, npop, live>>

\* Ctrl-C at the prompt: except KeyboardInterrupt, self._exit().
KeyboardInterrupt ==
    /\ pc = "prompt"
    /\ pc' = "exited"
    /\ exc' = "KeyboardInterrupt"
    /\ UNCHANGED <<hasStack, data, module, cmd, ret, editor, npush, npop, live>>

\* Mutant of do_init: a stack that exists is kept.
do_init_keeping ==
    /\ pc = "prompt"
    /\ hasStack' = TRUE
    /\ data' = IF hasStack THEN data ELSE Stack_init
    /\ Finish("init", "None", None)
    /\ UNCHANGED <<module, editor, npush, npop, live>>

do_init ==
    /\ pc = "prompt"
    /\ hasStack' = TRUE
    /\ data' = Stack_init
    /\ Finish("init", "None", None)
    /\ UNCHANGED <<module, editor, npush, npop, live>>

do_push(el) ==
    /\ pc = "prompt"
    /\ IF hasStack
       THEN /\ Len(data) < MaxLen
            /\ data' = Stack_push(data, el)
            /\ Finish("push", "None", None)
       ELSE /\ data' = data
            /\ Finish("push", "AttributeError", None)
    /\ UNCHANGED <<hasStack, module, editor, npush, npop, live>>

do_pop ==
    /\ pc = "prompt"
    /\ IF hasStack
       THEN LET r == Stack_pop(data) IN
            /\ data' = r.data
            /\ Finish("pop", r.exc, r.ret)
       ELSE /\ data' = data
            /\ Finish("pop", "AttributeError", None)
    /\ UNCHANGED <<hasStack, module, editor, npush, npop, live>>

\* Mutant of do_inspect: the elements are popped as they are printed.
do_inspect_draining ==
    /\ pc = "prompt"
    /\ data' = <<>>
    /\ Finish("inspect", IF hasStack THEN "None" ELSE "AttributeError", None)
    /\ UNCHANGED <<hasStack, module, editor, npush, npop, live>>

\* Prints the elements, len(self.stack) and the module; self.stack raises
\* AttributeError when do_init has not run.
do_inspect ==
    /\ pc = "prompt"
    /\ Finish("inspect", IF hasStack THEN "None" ELSE "AttributeError", None)
    /\ UNCHANGED <<hasStack, data, module, editor, npush, npop, live>>

\* Mutant of load: self.module is cleared before the file is opened.
load_clearing(mod, fname, readable, content) ==
    IF fname = "" \/ ~readable
    THEN [exc |-> "OSError", module |-> ModNone]
    ELSE [exc |-> "None", module |-> ModText(content)]

\* do_load's effect on self.module: open(fname) raises for '' and for a file
\* that cannot be read; otherwise the module is the file's content.
load(mod, fname, readable, content) ==
    IF fname = "" \/ ~readable
    THEN [exc |-> "OSError", module |-> mod]
    ELSE [exc |-> "None", module |-> ModText(content)]

do_load(fname, readable, content) ==
    LET r == load(module, fname, readable, content) IN
    /\ pc = "prompt"
    /\ module' = r.module
    /\ Finish("load", r.exc, None)
    /\ UNCHANGED <<hasStack, data, editor, npush, npop, live>>

\* do_enter's effect on self.module.  EDITOR unset: None.split() raises
\* AttributeError.  exit_code # 0: sys.exit().  Otherwise the file is read
\* into output, and `self.module = content` names a variable that does not
\* exist: NameError, and self.module is not assigned.
enter(mod, editorSet, exit_code, saved) ==
    IF ~editorSet THEN [exc |-> "AttributeError", module |-> mod, editor |-> NotRun]
    ELSE IF exit_code # 0
    THEN [exc |-> "SystemExit", module |-> mod,
          editor |-> [ran |-> TRUE, exit_code |-> exit_code, output |-> <<>>]]
    ELSE [exc |-> "NameError", module |-> mod,
          editor |-> [ran |-> TRUE, exit_code |-> exit_code, output |-> saved]]

do_enter(editorSet, exit_code, saved) ==
    LET r == enter(module, editorSet, exit_code, saved) IN
    /\ pc = "prompt"
    /\ module' = r.module
    /\ editor' = r.editor
    /\ Finish("enter", r.exc, None)
    /\ UNCHANGED <<hasStack, data, npush, npop, live>>

\* do_exit, and do_quit = do_exit: os._exit(0).
do_exit(name) ==
    /\ pc = "prompt"
    /\ cmd' = name
    /\ exc' = "None"
    /\ ret' = None
    /\ pc' = "exited"
    /\ UNCHANGED <<hasStack, data, module, editor, npush, npop, live>>

\* do_go: do_init(''), do_push(1), do_push(2), do_load('add.wat'),
\* do_inspect().  An exception of do_load ends it with the stack built.
do_go(readable, content) ==
    LET r == load(module, "add.wat", readable, content) IN
    /\ pc = "prompt"
    /\ hasStack' = TRUE
    /\ data' = Stack_push(Stack_push(Stack_init, IntVal(1)), IntVal(2))
    /\ module' = r.module
    /\ Finish("go", r.exc, None)
    /\ UNCHANGED <<editor, npush, npop, live>>

Next ==
    \/ cmdloop
    \/ KeyboardInterrupt
    \/ do_init
    \/ \E el \in Args : do_push(el)
    \/ do_pop
    \/ do_inspect
    \/ \E fname \in FileNames \cup {""}, readable \in BOOLEAN, content \in Texts :
          do_load(fname, readable, content)
    \/ \E editorSet \in BOOLEAN, exit_code \in {0, 1}, saved \in Texts :
          do_enter(editorSet, exit_code, saved)
    \/ \E name \in {"exit", "quit"} : do_exit(name)
    \/ \E readable \in BOOLEAN, content \in Texts : do_go(readable, content)

Spec == Init /\ [][Next]_vars

\* The shell with its control flow running on: once the inner loop has
\* returned or raised, the while True of WasmShell.cmdloop calls it again.
\* Nothing is assumed of the user, who may never type another line.
FairSpec == Spec /\ WF_vars(cmdloop)

(***************************************************************************)
(* Claims about class Stack, checked under StackSpec.                      *)
(***************************************************************************)
\* The values of the pushes in L, oldest push first.
RECURSIVE InPushOrder(_)
InPushOrder(L) ==
    IF L = {} THEN <<>>
    ELSE LET x == Newest(L) IN Append(InPushOrder(L \ {x}), x.v)

\* C1: Stack is LIFO.  Every pop that succeeds returns the value of the most
\* recent push not yet popped, removes exactly that element, and leaves the
\* elements below it as they were, in the order they were pushed.
C1_PopIsLIFO ==
    [][ (npop' = npop + 1) =>
          /\ live # {}
          /\ ret' = Newest(live).v
          /\ data' = SubSeq(data, 1, Len(data) - 1)
          /\ data' = InPushOrder(live \ {Newest(live)}) ]_vars

\* C1 witness: a pop succeeded after pushes of different values and an
\* earlier pop, with elements still below.
C1_Witness ==
    /\ cmd = "pop" /\ exc = "None"
    /\ npop >= 2 /\ Len(data) >= 2
    /\ data[1] # data[2]
    /\ ret # data[Len(data)]

\* C2: pop raises EmptyException exactly when the stack is empty; the stack
\* is then still empty, and on a non-empty stack pop raises nothing.
C2_PopRaisesIffEmpty ==
    [][ (cmd' = "pop") =>
          /\ (exc' = "EmptyException") <=> (Len(data) = 0)
          /\ (Len(data) = 0) => (data' = <<>>)
          /\ (Len(data) # 0) => (exc' = "None") ]_vars

\* C2 witness: a pop raised EmptyException on a stack that had been pushed to
\* and emptied again.
C2_Witness ==
    /\ cmd = "pop" /\ exc = "EmptyException"
    /\ npush >= 2 /\ npop = npush /\ data = <<>>

\* C4: top on a non-empty stack returns what a pop of the stack it leaves
\* would return, and leaves the contents unchanged; on an empty stack it
\* raises EmptyException and the stack stays empty.
C4_TopPeeks ==
    [][ (cmd' = "top") =>
          IF Len(data) = 0
          THEN exc' = "EmptyException" /\ data' = <<>>
          ELSE /\ exc' = "None"
               /\ data' = data
               /\ Stack_pop(data').exc = "None"
               /\ ret' = Stack_pop(data').ret ]_vars

\* C4 witness: top returned the newest of several different elements.
C4_Witness ==
    /\ cmd = "top" /\ exc = "None"
    /\ Len(data) >= 2
    /\ data[1] # data[Len(data)]
    /\ ret = data[Len(data)]

\* C5: len(stack) is the number of pushes minus the number of pops that did
\* not raise, never negative, and is_empty() is True exactly when it is 0.
C5_LenCountsPushesAndPops ==
    /\ Stack_len(data) = npush - npop
    /\ Stack_len(data) >= 0
    /\ Stack_is_empty(data) <=> (Stack_len(data) = 0)
    /\ (cmd = "len") => (ret = IntVal(npush - npop))
    /\ (cmd = "is_empty") => (ret = BoolVal(npush = npop))

\* C5 witness: len() was called after pushes and a successful pop, on a
\* stack that is not empty.
C5_Witness ==
    /\ cmd = "len"
    /\ npop >= 1 /\ npush - npop >= 2
    /\ ret = IntVal(2)

(***************************************************************************)
(* Claims about the shell, checked under Spec.                             *)
(***************************************************************************)
\* The last command was a do_pop that raised EmptyException.
EmptyPopRaised == cmd = "pop" /\ exc = "EmptyException"

C6_InspectReadOnly ==
    [][ (cmd' = "inspect") =>
          (hasStack' = hasStack /\ data' = data /\ module' = module) ]_vars

\* C6 witness: do_inspect has run on a stack of several elements with a
\* module loaded.
C6_Witness ==
    /\ cmd = "inspect" /\ exc = "None"
    /\ Len(data) >= 2
    /\ ~module.none /\ module.text # <<>>

\* C7: do_init leaves a new empty stack whatever the stack before held, the
\* module is unchanged by it, and a pop that follows it returns none of the
\* earlier elements: it raises EmptyException.
C7_InitGivesEmptyStack ==
    [][ /\ (cmd' = "init") => (hasStack' /\ Len(data') = 0 /\ module' = module)
        /\ (cmd = "init" /\ cmd' = "pop") =>
              (exc' = "EmptyException" /\ ret' = None) ]_vars

\* C7 witness: do_init has run with a module loaded, and the shell is at
\* the prompt with an empty stack.
C7_Witness ==
    /\ cmd = "init" /\ exc = "None"
    /\ hasStack /\ data = <<>>
    /\ ~module.none /\ module.text # <<>>
    /\ pc = "prompt"

\* Every entry of required_sections occurs in the text.
HasRequiredSections(text) ==
    \A i \in 1..Len(required_sections) :
        \E j \in 1..Len(text) : text[j] = required_sections[i]

\* C8 as stated: a text that do_load made the current module holds the
\* sections type, function and code.
C8_LoadedModuleIsComplete ==
    (cmd = "load" /\ exc = "None") =>
        (~module.none /\ HasRequiredSections(module.text))

C9_TenSections_entries ==
    << "type", "import", "function", "table", "memory", "global",
       "export", "start", "element", "code" >>

\* C9 as stated: in every state of the shell, sections is exactly the ten
\* sections type .. code.
C9_TenSections ==
    /\ pc \in {"prompt", "outer", "exited"}
    /\ sections = C9_TenSections_entries

\* C9 as amended: in every state of the shell, sections is exactly the eleven sections type, import,
\* function, table, memory, global, export, start, element, code, data, in
\* that order, with no other entry.
C9_ElevenSections ==
    /\ pc \in {"prompt", "outer", "exited"}
    /\ Len(sections) = 11
    /\ \A i \in 1..10 : sections[i] = C9_TenSections_entries[i]
    /\ sections[11] = "data"

\* C9 witness: the current module is a text with a section of the catalogue's
\* last entry.
C9_Witness ==
    /\ ~module.none
    /\ \E j \in 1..Len(module.text) : module.text[j] = sections[Len(sections)]
    /\ sections[Len(sections)] = "data"

\* C10 as stated: after a do_enter whose editor exited with code 0 the
\* current module is the text saved in the temporary file.
C10_EnterSetsModule ==
    (cmd = "enter" /\ editor.ran /\ editor.exit_code = 0) =>
        (module = ModText(editor.output))

ExceptionRaised == exc \notin {"None", "SystemExit", "KeyboardInterrupt"}

\* C12: neither an Exception raised by a command nor a true value returned
\* by one (do_pop returning a non-empty element) ends the shell: the process
\* ends only by exit/quit, SystemExit or Ctrl-C; after such a command control
\* is in cmdloop's while loop, whose next step enters the command loop again
\* with the stack and the module the command left; and the prompt, where the
\* next command is accepted, is eventually reached.
C12_ShellSurvivesCommands ==
    /\ [](ExceptionRaised => pc = "outer")
    /\ [][ (pc = "prompt" /\ cmd' = "pop" /\ exc' = "None" /\ Truthy(ret')
               /\ Len(data') < Len(data)) => pc' = "outer" ]_vars
    /\ [][ (pc' = "exited") =>
             (exc' \in {"SystemExit", "KeyboardInterrupt"} \/ cmd' \in {"exit", "quit"}) ]_vars
    /\ [][ (pc = "outer") =>
             (pc' = "prompt" /\ hasStack' = hasStack /\ data' = data
                 /\ module' = module) ]_vars
    /\ (pc = "outer") ~> (pc = "prompt")

\* C12 witness: do_pop returned a true element, which ended the inner loop,
\* and the shell is at the prompt again with the rest of the stack and the
\* module.
C12_Witness ==
    /\ cmd = "pop" /\ exc = "None" /\ Truthy(ret)
    /\ pc = "prompt"
    /\ Len(data) >= 1
    /\ ~module.none /\ module.text # <<>>

\* The places of x in the sequence q.
Places(q, x) == {j \in 1..Len(q) : q[j] = x}

\* C13: in every state of the shell, every entry of required_sections is an
\* entry of sections, and the three occur in sections in the order they have
\* in required_sections: type before function before code.
C13_RequiredWithinSections ==
    /\ pc \in {"prompt", "outer", "exited"}
    /\ required_sections[1] = "type"
    /\ \A i \in 1..Len(required_sections) :
          Cardinality(Places(sections, required_sections[i])) = 1
    /\ \A i, k \in 1..Len(required_sections) :
          (i < k) =>
              \A a \in Places(sections, required_sections[i]),
                 b \in Places(sections, required_sections[k]) : a < b
    /\ \A a \in Places(sections, "type"), b \in Places(sections, "function"),
          c \in Places(sections, "code") : a < b /\ b < c

\* C13 witness: the current module is a text made of the required sections,
\* each of which the catalogue holds.
C13_Witness ==
    /\ ~module.none
    /\ module.text = required_sections
    /\ \A j \in 1..Len(module.text) : Places(sections, module.text[j]) # {}

====
